---- MODULE Spec2Model ----
(***************************************************************************)
(* A model of three pieces of the os2 kernel:                              *)
(*                                                                         *)
(*   - E820Info::read and E820Info::num_phys_pages                         *)
(*     (kernel/memory/paging/e820.rs), specification SpecRead;             *)
(*   - sched::user::init (kernel/src/sched/user.rs), SpecInit;             *)
(*   - sched::user::switch_to_user (same file), SpecSwitch.                *)
(*                                                                         *)
(* Machine words are scaled: an address has AddrBits bits (u64 in the      *)
(* code) and a physical address accepted by PhysAddr::new has              *)
(* PhysAddrBits bits (52 in the x86_64 crate).  The page size is the real  *)
(* one.                                                                    *)
(***************************************************************************)
EXTENDS Integers, Sequences, FiniteSets, TLC

VARIABLES
    \* ---- e820.rs
    memory_map,        \* the firmware table (extern static memory_map)
    memory_map_count,  \* extern static memory_map_count
    read_pc,           \* "start" | "returned" | "counted" | "panicked"
    panic_at,          \* where read panicked, "none" otherwise
    byte_regions,      \* the local `regions` of read after the classification loop
    regions,           \* E820Info.regions
    num_pages,         \* the result of num_phys_pages, -1 before the call
    \* ---- sched/user.rs, init
    selectors,         \* SELECTORS: the indices of kernel_cs and user_ss
    efer,              \* the flags set in IA32_EFER
    msr,               \* the value of STAR, LSTAR and FMASK, as 16-bit words
    msr_written,       \* the MSRs written so far, in order
    init_pc,           \* "start" | "sce" | "star" | "lstar" | "done" | "panicked"
    \* ---- sched/user.rs, switch_to_user
    stack,             \* the stack region: start address and length in bytes
    entry,             \* code.1, the first user instruction
    kernel_rflags,     \* RFLAGS when switch_to_user is entered
    operand,           \* the register the compiler gives each asm operand
    reg,               \* the general-purpose registers
    cpu_if,            \* RFLAGS.IF of the processor
    cpl,               \* current privilege level: 0 or 3
    rsp_val,           \* the local `rsp`
    rflags_val,        \* the local `rflags`
    switch_pc,         \* "start" | "computed" | "asm" | "user"
    asm_pc,            \* index in Program of the next instruction
    rsp_loaded,        \* whether the asm block has written rsp
    user_rip,          \* RIP after sysret
    user_rflags        \* RFLAGS after sysret

e820vars == <<memory_map, memory_map_count, read_pc, panic_at, byte_regions,
              regions, num_pages>>

initvars == <<selectors, efer, msr, msr_written, init_pc>>

switchvars == <<stack, entry, kernel_rflags, operand, reg, cpu_if, cpl, rsp_val,
                rflags_val, switch_pc, asm_pc, rsp_loaded, user_rip, user_rflags>>

vars == <<e820vars, initvars, switchvars>>

----------------------------------------------------------------------------
(* Bounds and constants *)

\* Width of u64 in the model.
AddrBits == 15

\* Width of the addresses PhysAddr::new accepts in the model.
PhysAddrBits == 13

\* Number of entries of memory_map in the model ([MemoryRegion; 32] in the code).
MaxRecords == 2

\* Size4KiB::SIZE
PageSize == 4096

E820_MEMORY_USABLE == 1

AddrLimit == 2 ^ AddrBits

PhysLimit == 2 ^ PhysAddrBits

Min(a, b) == IF a < b THEN a ELSE b

----------------------------------------------------------------------------
(* MemoryRegion *)

start_addr(region) == region.base

len(region) == region.length

\* base + length as the mathematical sum; u64 addition overflows when the
\* sum reaches AddrLimit.
end_addr(region) == region.base + region.length

\* What an overflowing u64 addition yields in a build without overflow
\* checks.
WrapU64(x) == x % AddrLimit

----------------------------------------------------------------------------
(* Helpers standing for iterator adaptors and BTreeSet iteration *)

RECURSIVE SortedSeq(_)
\* BTreeSet<u64>::iter(): the elements in ascending order.
SortedSeq(S) ==
    IF S = {} THEN <<>>
    ELSE LET m == CHOOSE x \in S : \A y \in S : x <= y
         IN  <<m>> \o SortedSeq(S \ {m})

RECURSIVE InsertByStart(_, _)
\* Insert x before the first element whose start is >= that of x.
InsertByStart(x, s) ==
    IF s = <<>> THEN <<x>>
    ELSE IF Head(s)[1] >= x[1] THEN <<x>> \o s
         ELSE <<Head(s)>> \o InsertByStart(x, Tail(s))

RECURSIVE SortByStart(_)
\* info.sort_by_key(|&(start, _, _)| start): a stable sort.
SortByStart(s) ==
    IF s = <<>> THEN <<>> ELSE InsertByStart(Head(s), SortByStart(Tail(s)))

----------------------------------------------------------------------------
(* E820Info::read, step by step *)

\* The entries read: the first memory_map_count of the table.
Taken(map, count) == SubSeq(map, 1, Min(count, Len(map)))

\* Whether some non-empty entry read has base + length overflowing u64.
EndAddrOverflows(map, count) ==
    \E i \in 1..Len(Taken(map, count)) :
        /\ len(Taken(map, count)[i]) > 0
        /\ end_addr(Taken(map, count)[i]) >= AddrLimit

\* The first `info`: (start, end, type) of every non-empty entry read.
Collect(map, count) ==
    LET kept == SelectSeq(Taken(map, count), LAMBDA region : len(region) > 0)
    IN  [i \in 1..Len(kept) |->
            <<start_addr(kept[i]), WrapU64(end_addr(kept[i])), kept[i].region_type>>]

\* The BTreeSet of every start and end.
Endpoints(info) ==
    {info[i][1] : i \in 1..Len(info)} \cup {info[i][2] : i \in 1..Len(info)}

\* `mid` of one region: the endpoints within [start, end], ascending.
Mid(region, endpoints) ==
    SelectSeq(SortedSeq(endpoints), LAMBDA point : point >= region[1] /\ point <= region[2])

\* `pieces` of one region, for i in 0..mid.len() - 1.
Pieces(region, endpoints) ==
    LET mid == Mid(region, endpoints)
    IN  [i \in 1..(Len(mid) - 1) |-> <<mid[i], mid[i + 1], region[3]>>]

\* mid.len() - 1 with an empty mid: the subtraction underflows; without
\* overflow checks the loop then indexes mid[0] out of bounds.
SplitPanics(info, endpoints) ==
    \E i \in 1..Len(info) : Len(Mid(info[i], endpoints)) = 0

RECURSIVE FlatMapPieces(_, _)
\* info.into_iter().flat_map(..).collect(): the pieces of every region, in
\* the order of the regions.
FlatMapPieces(info, endpoints) ==
    IF info = <<>> THEN <<>>
    ELSE Pieces(Head(info), endpoints) \o FlatMapPieces(Tail(info), endpoints)

\* The second `info`: every region broken at the endpoints, sorted by start.
Split(info, endpoints) == SortByStart(FlatMapPieces(info, endpoints))

RECURSIVE ClassifyFrom(_, _, _)
\* The loop over the endpoints: drain the pieces that start at the endpoint
\* and push the first of them, end made inclusive, when all are usable.
ClassifyFrom(points, info, acc) ==
    IF points = <<>> THEN acc
    ELSE LET start      == Head(points)
             same_start == SelectSeq(info, LAMBDA p : start = p[1])
             rest       == SelectSeq(info, LAMBDA p : start # p[1])
             all_usable == \A i \in 1..Len(same_start) :
                               /\ same_start[i][1] < same_start[i][2]
                               /\ same_start[i][3] = E820_MEMORY_USABLE
         IN  ClassifyFrom(Tail(points), rest,
                 IF Len(same_start) > 0 /\ all_usable
                 THEN Append(acc, <<same_start[1][1], same_start[1][2] - 1>>)
                 ELSE acc)

\* The usable byte ranges (s, e), e inclusive.
Classify(info, endpoints) == ClassifyFrom(SortedSeq(endpoints), info, <<>>)

\* PhysAddr::new panics on an address with a bit at or above PhysAddrBits.
PhysAddrValid(addr) == addr < PhysLimit

\* PhysAddr::align_up(Size4KiB::SIZE)
align_up(addr) ==
    IF addr % PageSize = 0 THEN addr ELSE (addr - (addr % PageSize)) + PageSize

\* PhysAddr::align_down(Size4KiB::SIZE)
align_down(addr) == addr - (addr % PageSize)

\* Whether the conversion to frames meets an address PhysAddr::new refuses.
ConvertPanics(byte_ranges) ==
    \E i \in 1..Len(byte_ranges) :
        ~PhysAddrValid(byte_ranges[i][1]) \/ ~PhysAddrValid(byte_ranges[i][2])

\* One byte range as (start frame, end frame).
ToFrames(range) ==
    <<align_up(range[1]) \div PageSize, align_down(range[2]) \div PageSize>>

\* Convert without the final filter: every range is kept.
ConvertUnfiltered(byte_ranges) ==
    [i \in 1..Len(byte_ranges) |-> ToFrames(byte_ranges[i])]

\* The conversion to frame boundaries, keeping the ranges with s <= e.
Convert(byte_ranges) ==
    SelectSeq([i \in 1..Len(byte_ranges) |-> ToFrames(byte_ranges[i])],
              LAMBDA r : r[1] <= r[2])

RECURSIVE SumPages(_)
\* sum of end - start + 1 over the ranges
SumPages(rs) ==
    IF rs = <<>> THEN 0 ELSE (Head(rs)[2] - Head(rs)[1] + 1) + SumPages(Tail(rs))

----------------------------------------------------------------------------
(* sched/user.rs: machine words *)

\* The width of u16, the type of kernel_base and user_base.
U16Bits == 16

U16Limit == 2 ^ U16Bits

\* A u64 is held as four 16-bit words, the least significant first.
U64Words == 4

\* `x as u64` for a u16 x.
AsU64(x) == [i \in 1..U64Words |-> IF i = 1 THEN x ELSE 0]

\* v << n for a u64 v and n a whole number of 16-bit words (32 and 48 in
\* the code); the words shifted out at the top are lost.
ShiftLeft(v, n) ==
    [i \in 1..U64Words |-> IF i > n \div U16Bits THEN v[i - (n \div U16Bits)] ELSE 0]

RECURSIVE BitOr(_, _)
\* a | b on naturals
BitOr(a, b) ==
    IF a = 0 THEN b
    ELSE IF b = 0 THEN a
    ELSE (IF a % 2 = 1 \/ b % 2 = 1 THEN 1 ELSE 0) + 2 * BitOr(a \div 2, b \div 2)

\* v | w on u64
Or64(v, w) == [i \in 1..U64Words |-> BitOr(v[i], w[i])]

----------------------------------------------------------------------------
(* sched/user.rs: init *)

STAR == "0xC000_0081"

LSTAR == "0xC000_0082"

FMASK == "0xC000_0084"

SYSTEM_CALL_EXTENSIONS == "SYSTEM_CALL_EXTENSIONS"

\* `handle_syscall as u64`: the address of the handler, a fixed non-zero
\* word pattern here.
HandleSyscallAddr == [i \in 1..U64Words |-> i]

\* selectors.kernel_cs.index() * 8, as u16 arithmetic without overflow checks
KernelBase(sel) == (sel.kernel_cs * 8) % U16Limit

\* UserBase without the step back of one selector slot.
UserBaseNoAdjust(sel) == (sel.user_ss * 8) % U16Limit

\* selectors.user_ss.index() * 8 - 8, as u16 arithmetic without overflow checks
UserBase(sel) == (((sel.user_ss * 8) % U16Limit) - 8) % U16Limit

\* Whether one of the two u16 computations leaves the range of u16, which
\* panics in a build with overflow checks.
BaseOverflows(sel) ==
    \/ sel.kernel_cs * 8 >= U16Limit
    \/ sel.user_ss * 8 >= U16Limit
    \/ sel.user_ss * 8 - 8 < 0

\* ((kernel_base as u64) << 32) | ((user_base as u64) << 48)
StarValue(sel) ==
    Or64(ShiftLeft(AsU64(KernelBase(sel)), 32), ShiftLeft(AsU64(UserBase(sel)), 48))

\* The stack selector the processor loads on sysret: STAR[63:48] + 8.
SysretSS(star) == (star[4] + 8) % U16Limit

\* The largest index a 16-bit segment selector holds (its low 3 bits are
\* the table indicator and the privilege level).
MaxSelectorIndex == (U16Limit \div 8) - 1

\* The number of descriptor-table slots tried besides the last one.
GdtSlots == 5

\* Slot 0 of a descriptor table is the null descriptor; a selector of a
\* segment has an index from 1 up.
SelectorIndices == (1..GdtSlots) \cup {MaxSelectorIndex}

EferFlags == {SYSTEM_CALL_EXTENSIONS, "LONG_MODE_ENABLE", "NO_EXECUTE_ENABLE"}

InitIdle ==
    /\ selectors = [kernel_cs |-> 1, user_ss |-> 1]
    /\ efer = {}
    /\ msr = [m \in {STAR, LSTAR, FMASK} |-> AsU64(0)]
    /\ msr_written = <<>>
    /\ init_pc = "idle"

InitInit ==
    /\ selectors \in [kernel_cs : SelectorIndices, user_ss : SelectorIndices]
    /\ efer \in SUBSET EferFlags
    /\ msr = [m \in {STAR, LSTAR, FMASK} |-> AsU64(0)]
    /\ msr_written = <<>>
    /\ init_pc = "start"

\* Efer::update(|flags| *flags |= EferFlags::SYSTEM_CALL_EXTENSIONS)
EnableSyscallExtensions ==
    /\ UNCHANGED <<e820vars, switchvars>>
    /\ init_pc = "start"
    /\ efer' = efer \cup {SYSTEM_CALL_EXTENSIONS}
    /\ init_pc' = "sce"
    /\ UNCHANGED <<selectors, msr, msr_written>>

\* Msr::write
WriteMsr(m, value) ==
    /\ msr' = [msr EXCEPT ![m] = value]
    /\ msr_written' = Append(msr_written, m)

\* The computation of kernel_base, user_base and star, and STAR.write(star).
WriteStar ==
    /\ UNCHANGED <<e820vars, switchvars>>
    /\ init_pc = "sce"
    /\ \E overflow_checks \in BOOLEAN :
        IF overflow_checks /\ BaseOverflows(selectors)
        THEN /\ init_pc' = "panicked"
             /\ UNCHANGED <<msr, msr_written>>
        ELSE /\ WriteMsr(STAR, StarValue(selectors))
             /\ init_pc' = "star"
    /\ UNCHANGED <<selectors, efer>>

\* LSTAR.write(handle_syscall as u64)
WriteLstar ==
    /\ UNCHANGED <<e820vars, switchvars>>
    /\ init_pc = "star"
    /\ WriteMsr(LSTAR, HandleSyscallAddr)
    /\ init_pc' = "lstar"
    /\ UNCHANGED <<selectors, efer>>

\* FMASK.write(0)
WriteFmask ==
    /\ UNCHANGED <<e820vars, switchvars>>
    /\ init_pc = "lstar"
    /\ WriteMsr(FMASK, AsU64(0))
    /\ init_pc' = "done"
    /\ UNCHANGED <<selectors, efer>>

----------------------------------------------------------------------------
(* sched/user.rs: switch_to_user *)

\* size_of::<u8>(): region.start() is a pointer to u8 (load_user_code_section
\* writes bytes through it).
PointeeSize == 1

\* `len as isize`: the same bits, read as a signed number.
AsIsize(x) == IF x >= AddrLimit \div 2 THEN x - AddrLimit ELSE x

\* Offset with the pointer taken for a pointer to u64: 8 bytes an element.
OffsetU64(ptr, count) == (ptr + count * 8) % AddrLimit

\* ptr.offset(count): count elements past ptr, in the width of a pointer.
Offset(ptr, count) == (ptr + count * PointeeSize) % AddrLimit

\* The local `rsp`: start.offset(len as isize).
StackTop(region) == Offset(region.start, AsIsize(region.len))

\* RFlags::INTERRUPT_FLAG, bit 9
INTERRUPT_FLAG == 512

\* Whether a flags value has the interrupt-enable bit.
HasIF(flags) == (flags \div INTERRUPT_FLAG) % 2 = 1

\* (rflags::read() | rflags::RFlags::INTERRUPT_FLAG).bits()
TargetFlags(flags) == BitOr(flags, INTERRUPT_FLAG)

GPR == {"rax", "rbx", "rcx", "rdx", "rsi", "rdi", "rbp", "rsp",
        "r8", "r9", "r10", "r11", "r12", "r13", "r14", "r15"}

Mov(src, dst) == [op |-> "mov", src |-> src, dst |-> dst]

Xor(r) == [op |-> "xor", src |-> -1, dst |-> r]

Cli == [op |-> "cli", src |-> -1, dst |-> "none"]

Sysret == [op |-> "sysret", src |-> -1, dst |-> "none"]

\* Program with cli after the load of rsp instead of before it.
ProgramCliAfterRsp ==
    << Mov(0, "rcx"), Mov(1, "r11"),
       Xor("rax"), Xor("rbx"), Xor("rdx"), Xor("rdi"), Xor("rsi"), Xor("r8"),
       Xor("r9"), Xor("r10"), Xor("r12"), Xor("r13"), Xor("r14"), Xor("r15"),
       Mov(2, "rsp"),
       Cli,
       Sysret >>

\* The template of the asm block; Mov(n, r) is `mov $n, %r`.
Program ==
    << Mov(0, "rcx"), Mov(1, "r11"),
       Xor("rax"), Xor("rbx"), Xor("rdx"), Xor("rdi"), Xor("rsi"), Xor("r8"),
       Xor("r9"), Xor("r10"), Xor("r12"), Xor("r13"), Xor("r14"), Xor("r15"),
       Cli,
       Mov(2, "rsp"),
       Sysret >>

\* The registers the clobber list names: "rcx"; "r1" names no register of
\* the processor, so it keeps nothing from the compiler.
Clobbers == {"rcx"}

\* The registers an "r" input operand may be given: any general-purpose
\* register but the stack pointer and the clobbered ones.
Allocatable == GPR \ ({"rsp"} \cup Clobbers)

\* The assignments of the three input operands to registers: each operand
\* its own register.
Allocations ==
    {a \in [0..2 -> Allocatable] : a[0] # a[1] /\ a[0] # a[2] /\ a[1] # a[2]}

\* The number of start addresses and of lengths of stack regions tried, in
\* pages.
MaxStackPages == 2

\* A stack region: whole pages, after the code page and its guard pages,
\* followed by its own guard page within the address space, and no longer
\* than isize::MAX.
StackRegions ==
    {r \in [start : {(1 + p) * PageSize : p \in 1..MaxStackPages},
            len   : {n * PageSize : n \in 1..MaxStackPages}] :
        /\ r.start + r.len + PageSize <= AddrLimit
        /\ r.len < AddrLimit \div 2}

\* The address of the first user instruction: the start of the code region.
EntryAddrs == {PageSize}

\* RFLAGS on entry: bit 1 is always set; with and without IF and ZF.
RflagsValues == {2, 2 + 64, 2 + INTERRUPT_FLAG, 2 + 64 + INTERRUPT_FLAG}

\* What the registers hold on entry: kernel values, all non-zero.
KernelValues == {21, 37}

SwitchIdle ==
    /\ stack = [start |-> 0, len |-> 0]
    /\ entry = 0
    /\ kernel_rflags = 0
    /\ operand = [n \in 0..2 |-> "none"]
    /\ reg = [r \in GPR |-> 0]
    /\ cpu_if = FALSE
    /\ cpl = 0
    /\ rsp_val = -1
    /\ rflags_val = -1
    /\ switch_pc = "idle"
    /\ asm_pc = 0
    /\ rsp_loaded = FALSE
    /\ user_rip = -1
    /\ user_rflags = -1

InitSwitch ==
    /\ stack \in StackRegions
    /\ entry \in EntryAddrs
    /\ kernel_rflags \in RflagsValues
    /\ operand \in Allocations
    /\ \E v \in KernelValues : reg = [r \in GPR |-> v]
    /\ cpu_if = HasIF(kernel_rflags)
    /\ cpl = 0
    /\ rsp_val = -1
    /\ rflags_val = -1
    /\ switch_pc = "start"
    /\ asm_pc = 0
    /\ rsp_loaded = FALSE
    /\ user_rip = -1
    /\ user_rflags = -1

\* The computation of rsp, rip and rflags before the asm block.
ComputeContext ==
    /\ UNCHANGED <<e820vars, initvars>>
    /\ switch_pc = "start"
    /\ rsp_val' = StackTop(stack)
    /\ rflags_val' = TargetFlags(kernel_rflags)
    /\ switch_pc' = "computed"
    /\ UNCHANGED <<stack, entry, kernel_rflags, operand, reg, cpu_if, cpl, asm_pc,
                   rsp_loaded, user_rip, user_rflags>>

\* Entering the asm block: the compiler has put each input operand in its
\* register; the other registers keep what they held.
EnterAsm ==
    /\ UNCHANGED <<e820vars, initvars>>
    /\ switch_pc = "computed"
    /\ reg' = [r \in GPR |->
                  IF r = operand[0] THEN entry
                  ELSE IF r = operand[1] THEN rflags_val
                  ELSE IF r = operand[2] THEN rsp_val
                  ELSE reg[r]]
    /\ switch_pc' = "asm"
    /\ asm_pc' = 1
    /\ UNCHANGED <<stack, entry, kernel_rflags, operand, cpu_if, cpl, rsp_val,
                   rflags_val, rsp_loaded, user_rip, user_rflags>>

AtInstruction(op) ==
    /\ switch_pc = "asm"
    /\ asm_pc \in 1..Len(Program)
    /\ Program[asm_pc].op = op

\* mov $n, %dst
ExecMov ==
    /\ UNCHANGED <<e820vars, initvars>>
    /\ AtInstruction("mov")
    /\ reg' = [reg EXCEPT ![Program[asm_pc].dst] = reg[operand[Program[asm_pc].src]]]
    /\ rsp_loaded' = (rsp_loaded \/ Program[asm_pc].dst = "rsp")
    /\ asm_pc' = asm_pc + 1
    /\ UNCHANGED <<stack, entry, kernel_rflags, operand, cpu_if, cpl, rsp_val,
                   rflags_val, switch_pc, user_rip, user_rflags>>

\* xor %r, %r
ExecXor ==
    /\ UNCHANGED <<e820vars, initvars>>
    /\ AtInstruction("xor")
    /\ reg' = [reg EXCEPT ![Program[asm_pc].dst] = 0]
    /\ asm_pc' = asm_pc + 1
    /\ UNCHANGED <<stack, entry, kernel_rflags, operand, cpu_if, cpl, rsp_val,
                   rflags_val, switch_pc, rsp_loaded, user_rip, user_rflags>>

\* cli
ExecCli ==
    /\ UNCHANGED <<e820vars, initvars>>
    /\ AtInstruction("cli")
    /\ cpu_if' = FALSE
    /\ asm_pc' = asm_pc + 1
    /\ UNCHANGED <<stack, entry, kernel_rflags, operand, reg, cpl, rsp_val,
                   rflags_val, switch_pc, rsp_loaded, user_rip, user_rflags>>

\* sysret: RIP from rcx, RFLAGS from r11, privilege level 3, in one
\* instruction.
ExecSysret ==
    /\ UNCHANGED <<e820vars, initvars>>
    /\ AtInstruction("sysret")
    /\ user_rip' = reg["rcx"]
    /\ user_rflags' = reg["r11"]
    /\ cpu_if' = HasIF(reg["r11"])
    /\ cpl' = 3
    /\ switch_pc' = "user"
    /\ asm_pc' = asm_pc + 1
    /\ UNCHANGED <<stack, entry, kernel_rflags, operand, reg, rsp_val, rflags_val,
                   rsp_loaded>>

----------------------------------------------------------------------------
(* e820.rs: inputs *)

\* Bases of the firmware entries tried: the start of memory, an unaligned
\* address inside the first page, and an address near the top of u64.
Bases == {0, 50, AddrLimit - 50}

\* Whole numbers of pages up to one page more than PhysAddr::new accepts.
MaxPages == (PhysLimit \div PageSize) + 1

\* Lengths tried: empty, less than a page, whole pages.
Lengths == {0, 100} \cup {n * PageSize : n \in 1..MaxPages}

\* Usable, and one type that is not (2 is "reserved" in E820).
RegionTypes == {E820_MEMORY_USABLE, E820_MEMORY_USABLE + 1}

MemoryRegions == [base : Bases, length : Lengths, region_type : RegionTypes]

InitRead ==
    /\ memory_map \in [1..MaxRecords -> MemoryRegions]
    /\ memory_map_count \in 0..(MaxRecords + 1)
    /\ read_pc = "start"
    /\ panic_at = "none"
    /\ byte_regions = <<>>
    /\ regions = <<>>
    /\ num_pages = -1
    /\ InitIdle
    /\ SwitchIdle

----------------------------------------------------------------------------
(* Actions *)

ReadPanic(where) ==
    /\ read_pc' = "panicked"
    /\ panic_at' = where
    /\ UNCHANGED <<memory_map, memory_map_count, byte_regions, regions, num_pages>>

\* E820Info::read().  overflow_checks is the build's setting: with it an
\* overflowing addition or subtraction panics, without it the value wraps.
Read ==
    /\ read_pc = "start"
    /\ UNCHANGED <<initvars, switchvars>>
    /\ \E overflow_checks \in BOOLEAN :
        LET info      == Collect(memory_map, memory_map_count)
            endpoints == Endpoints(info)
        IN  IF overflow_checks /\ EndAddrOverflows(memory_map, memory_map_count)
            THEN ReadPanic("end_addr")
            ELSE IF SplitPanics(info, endpoints)
            THEN ReadPanic("mid")
            ELSE LET usable == Classify(Split(info, endpoints), endpoints)
                 IN  IF ConvertPanics(usable)
                     THEN ReadPanic("PhysAddr::new")
                     ELSE /\ read_pc' = "returned"
                          /\ byte_regions' = usable
                          /\ regions' = Convert(usable)
                          /\ UNCHANGED <<memory_map, memory_map_count, panic_at,
                                         num_pages>>

\* E820Info::num_phys_pages()
NumPhysPages ==
    /\ read_pc = "returned"
    /\ num_pages' = SumPages(regions)
    /\ read_pc' = "counted"
    /\ UNCHANGED <<memory_map, memory_map_count, panic_at, byte_regions, regions>>
    /\ UNCHANGED <<initvars, switchvars>>

NextRead == Read \/ NumPhysPages

SpecRead == InitRead /\ [][NextRead]_vars

E820Idle ==
    /\ memory_map = <<>>
    /\ memory_map_count = 0
    /\ read_pc = "idle"
    /\ panic_at = "none"
    /\ byte_regions = <<>>
    /\ regions = <<>>
    /\ num_pages = -1

----------------------------------------------------------------------------
(* Specifications of init and of switch_to_user *)

InitOfInit == E820Idle /\ InitInit /\ SwitchIdle

NextInit == EnableSyscallExtensions \/ WriteStar \/ WriteLstar \/ WriteFmask

SpecInit == InitOfInit /\ [][NextInit]_vars

InitOfSwitch == E820Idle /\ InitIdle /\ InitSwitch

NextSwitch ==
    ComputeContext \/ EnterAsm \/ ExecMov \/ ExecXor \/ ExecCli \/ ExecSysret

SpecSwitch == InitOfSwitch /\ [][NextSwitch]_vars

----------------------------------------------------------------------------
(* Properties of E820Info::read, checked under SpecRead *)

ReadReturned == read_pc \in {"returned", "counted"}

\* The entries of the table that read looks at.
InputRecords ==
    {Taken(memory_map, memory_map_count)[i] :
        i \in 1..Len(Taken(memory_map, memory_map_count))}

\* The first and last byte of frame f.
FrameFirstByte(f) == f * PageSize

FrameLastByte(f) == f * PageSize + (PageSize - 1)

\* Whether frame f holds a byte of [region.base, region.base + region.length).
FrameMeetsRecord(f, region) ==
    /\ region.length > 0
    /\ region.base <= FrameLastByte(f)
    /\ FrameFirstByte(f) < region.base + region.length

\* C1: conservative intersection.  No frame of an output range holds a byte
\* covered by a non-empty input record whose type is not usable.
C1_ConservativeIntersection ==
    ReadReturned =>
        \A i \in 1..Len(regions) :
            \A f \in regions[i][1]..regions[i][2] :
                \A region \in InputRecords :
                    region.region_type # E820_MEMORY_USABLE => ~FrameMeetsRecord(f, region)

\* C2: the inventory is sorted ascending by start frame, each range starts
\* strictly after the previous one ends, and every range has start <= end.
C2_SortedDisjoint ==
    ReadReturned =>
        /\ \A i \in 1..Len(regions) : regions[i][1] <= regions[i][2]
        /\ \A i \in 1..(Len(regions) - 1) : regions[i][2] < regions[i + 1][1]

\* A returned inventory of two or more ranges.
C2_Witness == ReadReturned /\ Len(regions) >= 2

\* C3: page rounding drops partial pages.  Every output range lies wholly
\* inside one of the usable byte ranges found by the classification loop.
C3_RoundingInside ==
    ReadReturned =>
        \A i \in 1..Len(regions) :
            \E j \in 1..Len(byte_regions) :
                /\ byte_regions[j][1] <= FrameFirstByte(regions[i][1])
                /\ FrameLastByte(regions[i][2]) <= byte_regions[j][2]

\* C4: read never aborts, whatever the firmware table holds.
C4_NeverAborts == read_pc # "panicked"

\* C5: a table of the single usable record [0, N * 4096), N >= 1, gives the
\* one range (0, N - 1), and num_phys_pages gives N.
C5_SinglePageAlignedRecord ==
    \A n \in 1..(AddrLimit \div PageSize) :
        ( /\ read_pc # "start"
          /\ Len(Taken(memory_map, memory_map_count)) = 1
          /\ memory_map[1] = [base |-> 0, length |-> n * PageSize,
                              region_type |-> E820_MEMORY_USABLE] )
        => /\ ReadReturned
           /\ regions = << <<0, n - 1>> >>
           /\ (read_pc = "counted" => num_pages = n)

\* The part of C5 that holds: as C5 for the N whose last byte PhysAddr::new
\* accepts.
SinglePageAlignedRecordInRange ==
    \A n \in 1..(PhysLimit \div PageSize) :
        ( /\ read_pc # "start"
          /\ Len(Taken(memory_map, memory_map_count)) = 1
          /\ memory_map[1] = [base |-> 0, length |-> n * PageSize,
                              region_type |-> E820_MEMORY_USABLE] )
        => /\ ReadReturned
           /\ regions = << <<0, n - 1>> >>
           /\ (read_pc = "counted" => num_pages = n)

----------------------------------------------------------------------------
(* Properties of switch_to_user, checked under SpecSwitch *)

\* C6: the computed target stack pointer is S + L for a stack region that
\* starts at S and is L bytes long.
C6_StackPointerIsTop ==
    switch_pc \in {"computed", "asm", "user"} => rsp_val = stack.start + stack.len

\* The stack pointer has been computed for a stack of more than one page.
C6_Witness == switch_pc = "computed" /\ stack.len > PageSize

\* C7: from the overwrite of rsp until sysret has executed, interrupts are
\* disabled; the interrupt-enable bit is set once the processor is in user
\* mode, and the drop to user mode comes after the overwrite.
C7_InterruptsOffUntilSysret ==
    /\ (rsp_loaded /\ cpl = 0) => ~cpu_if
    /\ cpl = 3 => (cpu_if /\ rsp_loaded)

\* switch_to_user was entered with interrupts enabled, rsp is overwritten
\* and sysret has not executed yet.
C7_Witness == HasIF(kernel_rflags) /\ rsp_loaded /\ cpl = 0

\* C8: when the processor enters user mode, every general-purpose register
\* other than rcx, r11 and rsp holds zero.
C8_OtherRegistersZero ==
    cpl = 3 => \A r \in GPR \ {"rcx", "r11", "rsp"} : reg[r] = 0

\* C9: whatever registers the operands were given, when sysret executes rcx
\* holds the entry address, r11 the flags on entry with the
\* interrupt-enable bit set, and rsp the computed stack pointer.
C9_SysretSeesOperands ==
    cpl = 3 =>
        /\ reg["rcx"] = entry
        /\ reg["r11"] = (IF HasIF(kernel_rflags) THEN kernel_rflags
                         ELSE kernel_rflags + INTERRUPT_FLAG)
        /\ reg["rsp"] = rsp_val

----------------------------------------------------------------------------
(* Properties of init, checked under SpecInit *)

\* C10: STAR is written with (k * 8) << 32 | (u * 8 - 8) << 48, both fields
\* within u16 with no underflow or overflow, so that the stack selector of
\* sysret is u * 8; the write comes after the enable flag is set and before
\* the writes of LSTAR and FMASK.
C10_StarPacking ==
    /\ init_pc # "panicked"
    /\ \A i \in 1..Len(msr_written) : msr_written[i] = <<STAR, LSTAR, FMASK>>[i]
    /\ Len(msr_written) >= 1 =>
        /\ init_pc # "start"
        /\ SYSTEM_CALL_EXTENSIONS \in efer
        /\ selectors.kernel_cs * 8 \in 0..(U16Limit - 1)
        /\ selectors.user_ss * 8 - 8 \in 0..(U16Limit - 1)
        /\ msr[STAR] = <<0, 0, selectors.kernel_cs * 8, selectors.user_ss * 8 - 8>>
        /\ SysretSS(msr[STAR]) = selectors.user_ss * 8

\* init has run to its end for a user stack selector above the kernel code
\* selector.
C10_Witness == init_pc = "done" /\ selectors.user_ss > selectors.kernel_cs

====
